---------------------------- MODULE Spec2Model ----------------------------
(***************************************************************************)
(* DequeDict (src/dequedict/_dequedict.c): an ordered dictionary made of   *)
(* a doubly-linked list of entries, a key index (a dict from key to the    *)
(* entry's address) and a position cache (an array of entry addresses with *)
(* a left offset).  Entries live in a heap of addresses and are recycled   *)
(* through one global free list.                                           *)
(***************************************************************************)
EXTENDS Integers, Sequences, FiniteSets, TLC

(* ------------------------------ bounds -------------------------------- *)
MaxEntries == 3      \* addresses PyMem_Malloc can hand out for entries
MaxSteps == 4        \* calls of a sequence in which an insert fails after linking
MaxDeepSteps == 5    \* the same, in the specifications of a few methods only
MaxLive == 1         \* entries held at a time by the queue workload
MaxExtent == 9       \* cache slots used before the queue workload stops
MaxCacheSize == 3    \* slots of the position cache used before set stops appending
MaxItems == 2        \* length of the pair sequence given to the constructor

(* -------------------------- program constants -------------------------- *)
FREELIST_MAX == 128
MinCacheCapacity == 8

(* ------------------------------ universe ------------------------------- *)
HashableKeys == {"a", "b", "c"}
UnhashableKeys == {"u"}           \* keys whose hash raises TypeError
AllKeys == HashableKeys \cup UnhashableKeys
Values == {1, 2}
NULL == 0
Addr == 1..MaxEntries
NoKey == "-"
NoVal == 0
Garbage == -1                     \* an array slot that was never written
Indices == -4..3                  \* arguments tried for at()

VARIABLES
    mem,             \* heap: address -> DequeDictEntry.  key and value of an
                     \* entry whose references were dropped (Py_DECREF) are
                     \* NoKey and NoVal; cache_idx, which no function of the
                     \* file ever reads, is kept only for the entries of a
                     \* present cache and is -1 elsewhere.
    allocated,       \* addresses obtained from PyMem_Malloc and not PyMem_Free'd
    freelist,        \* static DequeDictEntry *freelist
    freelist_size,   \* static int freelist_size
    dict,            \* self->dict: key -> address stored in the capsule
    head, tail, size,
    index_cache,     \* self->index_cache: <<>> is the NULL pointer
    cache_size, cache_capacity, cache_offset,
    last,            \* the call observed, with what it returned or raised:
                     \* any call of a behaviour may be the observed one, and
                     \* the behaviour ends there
    steps,           \* calls made so far that changed a variable, up to budget
    failed,          \* TRUE once an insert released an entry it had linked
    ub,              \* TRUE once a call ran into undefined behaviour
    peer,            \* a second container of the process, made by copy():
                     \* its fields, and live = FALSE while there is none.
                     \* The calls go to the container of the variables
                     \* above; the two share the entry pool.
    iterobj,         \* an iterator over the container (iter(d)): the entry it
                     \* stands on, and live = FALSE while there is none
    budget           \* the calls followed in this specification once an
                     \* insert has failed after linking: MaxSteps or
                     \* MaxDeepSteps, fixed by the initial state

vars == <<mem, allocated, freelist, freelist_size, dict, head, tail, size,
          index_cache, cache_size, cache_capacity, cache_offset, last, steps,
          failed, ub, peer, iterobj, budget>>

heapVars == <<mem, allocated, freelist, freelist_size>>
listVars == <<head, tail, size>>
cacheVars == <<index_cache, cache_size, cache_capacity, cache_offset>>
\* What a method of the container cannot reach.
envVars == <<peer, iterobj, budget>>

NullCache == <<>>

DequeDictEntry(k, v, p, n, c) ==
    [key |-> k, value |-> v, prev |-> p, next |-> n, cache_idx |-> c]

\* A call and its outcome: the key argument, the error raised (Ok: none)
\* and the key and value returned.
Call(op, k, a, e, rk, rv) ==
    [op |-> op, key |-> k, arg |-> a, err |-> e, rk |-> rk, rv |-> rv]

Ok == "ok"
\* No call has been observed yet.
Unobserved == Call("-", NoKey, NoVal, Ok, NoKey, NoVal)

(* ------------------------- list traversal ------------------------------ *)
\* The entries met from e by following next, at most n of them.
RECURSIVE WalkNext(_, _, _)
WalkNext(m, e, n) ==
    IF e = NULL \/ n = 0 THEN <<>> ELSE <<e>> \o WalkNext(m, m[e].next, n - 1)

RECURSIVE WalkPrev(_, _, _)
WalkPrev(m, e, n) ==
    IF e = NULL \/ n = 0 THEN <<>> ELSE <<e>> \o WalkPrev(m, m[e].prev, n - 1)

\* A walk of MaxEntries + 1 entries has met some entry twice: a cycle.
WalkLimit == MaxEntries + 1
Entries == WalkNext(mem, head, WalkLimit)
Cyclic == Len(Entries) = WalkLimit
Range(s) == {s[i] : i \in DOMAIN s}
KeysOf(m, es) == [i \in DOMAIN es |-> m[es[i]].key]
ValuesOf(m, es) == [i \in DOMAIN es |-> m[es[i]].value]
KeyOrder == KeysOf(mem, Entries)
ValueOrder == ValuesOf(mem, Entries)

(* ----------------------------- entry pool ------------------------------ *)
\* entry_alloc: pop the free list, else PyMem_Malloc (which may fail).
\* PyMem_Malloc hands out the least address not in use.
Fresh(al) == CHOOSE a \in Addr \ al : \A b \in Addr \ al : a <= b

\* entry_alloc on heap h = [mem, freelist, freelist_size, allocated].
entry_alloc(h, mallocFails) ==
    IF h.freelist # NULL
    THEN [entry |-> h.freelist, mem |-> h.mem,
          freelist |-> h.mem[h.freelist].next,
          freelist_size |-> h.freelist_size - 1, allocated |-> h.allocated]
    ELSE IF mallocFails \/ Addr \ h.allocated = {}
    THEN [entry |-> NULL, mem |-> h.mem, freelist |-> h.freelist,
          freelist_size |-> h.freelist_size, allocated |-> h.allocated]
    ELSE [entry |-> Fresh(h.allocated), mem |-> h.mem, freelist |-> h.freelist,
          freelist_size |-> h.freelist_size,
          allocated |-> h.allocated \cup {Fresh(h.allocated)}]

\* entry_free on heap h.
entry_free(h, e) ==
    IF h.freelist_size < FREELIST_MAX
    THEN [mem |-> [h.mem EXCEPT ![e].next = h.freelist],
          freelist |-> e,
          freelist_size |-> h.freelist_size + 1,
          allocated |-> h.allocated]
    ELSE [mem |-> h.mem, freelist |-> h.freelist,
          freelist_size |-> h.freelist_size,
          allocated |-> h.allocated \ {e}]

Heap == [mem |-> mem, freelist |-> freelist,
         freelist_size |-> freelist_size, allocated |-> allocated]

\* Py_DECREF(entry->key); Py_DECREF(entry->value): the references are gone.
Py_DECREF(m, e) == [m EXCEPT ![e].key = NoKey, ![e].value = NoVal]
\* An entry whose key and value are still referenced.
Referenced(m, e) == m[e].key # NoKey


(* ------------------------------ key index ------------------------------ *)
\* PyDict_GetItem: NULL for an absent key and for a key that cannot be hashed.
PyDict_GetItem(d, k) == IF k \in DOMAIN d THEN d[k] ELSE NULL
\* PyDict_Contains: 1, 0, or -1 when the key cannot be hashed.
PyDict_Contains(d, k) ==
    IF k \in UnhashableKeys THEN -1 ELSE IF k \in DOMAIN d THEN 1 ELSE 0
PyDict_SetItem(d, k, e) == [x \in DOMAIN d \cup {k} |-> IF x = k THEN e ELSE d[x]]
\* PyDict_DelItem: removes the key; an absent key only raises.
PyDict_DelItem(d, k) == [x \in DOMAIN d \ {k} |-> d[x]]
EmptyDict == [x \in {} |-> NULL]

(* --------------------------- position cache ---------------------------- *)
Cache == [index_cache |-> index_cache, cache_size |-> cache_size,
          cache_capacity |-> cache_capacity, cache_offset |-> cache_offset]

SetCache(c) ==
    /\ index_cache' = c.index_cache
    /\ cache_size' = c.cache_size
    /\ cache_capacity' = c.cache_capacity
    /\ cache_offset' = c.cache_offset

\* The entries in the slots at() can read: cache_offset .. cache_size - 1.
Window(c) ==
    {c.index_cache[i] : i \in {j \in DOMAIN c.index_cache :
                                 c.cache_offset < j /\ j <= c.cache_size}}

\* The heap as stored: cache_idx is kept for the entries of c's window only.
Stored(m, c) ==
    [a \in Addr |-> IF a \in Window(c) THEN m[a] ELSE [m[a] EXCEPT !.cache_idx = -1]]

SetHeap(h, c) ==
    /\ mem' = Stored(h.mem, c)
    /\ freelist' = h.freelist
    /\ freelist_size' = h.freelist_size
    /\ allocated' = h.allocated

\* DequeDict_invalidate_cache
DequeDict_invalidate_cache(c) ==
    [index_cache |-> NullCache, cache_size |-> 0,
     cache_capacity |-> 0, cache_offset |-> 0]


\* DequeDict_rebuild_cache: the cache, heap and return code after a rebuild.
\* The loop writes one slot per entry met from head; a list longer than
\* size (in particular a cyclic one) writes beyond the array.
DequeDict_rebuild_cache(mallocFails) ==
    LET es == Entries
        zero == DequeDict_invalidate_cache(Cache)
    IN  IF size = 0
        THEN [cache |-> zero, mem |-> mem, rc |-> 0, ub |-> FALSE]
        ELSE IF mallocFails \/ size < 0
        THEN [cache |-> [zero EXCEPT !.cache_capacity = size],
              mem |-> mem, rc |-> -1, ub |-> FALSE]
        ELSE IF Len(es) > size \/ Len(es) = WalkLimit
        THEN [cache |-> zero, mem |-> mem, rc |-> 0, ub |-> TRUE]
        ELSE [cache |-> [index_cache |-> [i \in 1..size |->
                                    IF i <= Len(es) THEN es[i] ELSE Garbage],
                         cache_size |-> size,
                         cache_capacity |-> size,
                         cache_offset |-> 0],
              mem |-> [a \in Addr |->
                        IF \E i \in DOMAIN es : es[i] = a
                        THEN [mem[a] EXCEPT !.cache_idx =
                                (CHOOSE i \in DOMAIN es : es[i] = a) - 1]
                        ELSE mem[a]],
              rc |-> 0, ub |-> FALSE]

\* DequeDict_cache_ensure_capacity on cache c: the cache and return code.
DequeDict_cache_ensure_capacity(c, reallocFails) ==
    LET dbl == c.cache_capacity * 2
        new_cap == IF dbl < MinCacheCapacity THEN MinCacheCapacity ELSE dbl
    IN  IF c.cache_size < c.cache_capacity
        THEN [cache |-> c, rc |-> 0]
        ELSE IF reallocFails
        THEN [cache |-> DequeDict_invalidate_cache(c), rc |-> -1]
        ELSE [cache |-> [c EXCEPT
                  !.index_cache = [i \in 1..new_cap |->
                        IF i <= Len(c.index_cache) THEN c.index_cache[i]
                        ELSE Garbage],
                  !.cache_capacity = new_cap],
              rc |-> 0]

\* The cache append of DequeDict_setitem (lines 414-421) for new entry e.
CacheAppend(c, e, reallocFails) ==
    IF c.index_cache = NullCache
    THEN [cache |-> c, idx |-> -1]
    ELSE LET g == DequeDict_cache_ensure_capacity(c, reallocFails)
         IN  IF g.rc = 0 /\ g.cache.index_cache # NullCache
             THEN [cache |-> [g.cache EXCEPT
                       !.index_cache[g.cache.cache_size + 1] = e,
                       !.cache_size = g.cache.cache_size + 1],
                   idx |-> g.cache.cache_size]
             ELSE [cache |-> g.cache, idx |-> -1]

(* ------------------------------ the calls ------------------------------ *)
\* Call sequences in which no insert fails after linking are followed without
\* a bound, the others for budget calls.
Ready == last.op = Unobserved.op /\ ~ub /\ (failed => steps < budget)

Step == IF steps < budget THEN steps + 1 ELSE steps

Returns(c) ==
    /\ (last' = Unobserved \/ last' = c)
    /\ steps' = Step
    /\ UNCHANGED <<failed, envVars>>

\* The return of an insert that released the entry it had already linked.
ReturnsLinked(c) ==
    /\ steps < budget
    /\ (last' = Unobserved \/ last' = c)
    /\ steps' = Step
    /\ failed' = TRUE
    /\ UNCHANGED envVars

\* The return of a call that changes nothing.
Reads(op, key, arg, r) ==
    /\ last' = Call(op, key, arg, r.err, r.rk, r.rv)
    /\ UNCHANGED <<heapVars, dict, listVars, cacheVars, ub, steps, failed, envVars>>

\* Raises with a fault: the position cache is dropped on the way out.
Raises_DropsCache(op, key, arg, err, rv) ==
    LET c == DequeDict_invalidate_cache(Cache)
    IN  /\ last' = Call(op, key, arg, err, NoKey, rv)
        /\ mem' = Stored(mem, c)
        /\ SetCache(c)
        /\ UNCHANGED <<allocated, freelist, freelist_size, dict, listVars, ub,
                       steps, failed, envVars>>

\* A call that raises (or returns a default) and changes nothing.
Raises(op, key, arg, err, rv) ==
    Reads(op, key, arg, [err |-> err, rk |-> NoKey, rv |-> rv])

\* A call that uses a dropped reference, reads a slot never written, writes
\* beyond an array or never returns: what follows is not defined.
Undefined(op, key) ==
    /\ ub' = TRUE
    /\ last' = Call(op, key, NoVal, "undefined", NoKey, NoVal)
    /\ UNCHANGED <<heapVars, dict, listVars, cacheVars, steps, failed, envVars>>

\* Where an insert can fail: the entry allocation, the growth of the cache,
\* the capsule (PyLong_FromVoidPtr) or the insertion into the dict.
FailModes == {"none", "alloc", "realloc", "index"}

\* The failures that can happen in the current state for a new key.
CanFail(fail, usesCache) ==
    \/ fail = "none"
    \/ fail = "alloc" /\ freelist = NULL
    \/ fail = "realloc" /\ usesCache /\ index_cache # NullCache
                        /\ cache_size >= cache_capacity
    \/ fail = "index"

\* DequeDict_len
DequeDict_len == size

\* SetExisting with a fault: the replacement also drops the position cache.
SetExisting_DropsCache(key, value) ==
    LET entry == PyDict_GetItem(dict, key)
        c == DequeDict_invalidate_cache(Cache)
    IN  /\ mem' = Stored([mem EXCEPT ![entry].value = value], c)
        /\ SetCache(c)
        /\ UNCHANGED <<allocated, freelist, freelist_size, dict, listVars, ub>>
        /\ Returns(Call("setitem", key, value, Ok, NoKey, NoVal))

\* DequeDict_setitem, key present: the value is replaced in place.
SetExisting(key, value) ==
    LET entry == PyDict_GetItem(dict, key)
    IN  IF ~Referenced(mem, entry)
        THEN Undefined("setitem", key)
        ELSE /\ mem' = [mem EXCEPT ![entry].value = value]
             /\ UNCHANGED <<allocated, freelist, freelist_size, dict, listVars,
                            cacheVars, ub>>
             /\ Returns(Call("setitem", key, value, Ok, NoKey, NoVal))

\* DequeDict_setitem, key absent: a new entry is appended at the tail.
SetNew(op, key, value, fail) ==
    LET a == entry_alloc(Heap, fail = "alloc")
        e == a.entry
        m1 == [mem EXCEPT ![e] = DequeDictEntry(key, value, tail, NULL, -1)]
        m2 == IF tail # NULL THEN [m1 EXCEPT ![tail].next = e] ELSE m1
        app == CacheAppend(Cache, e, fail = "realloc")
        m3 == [m2 EXCEPT ![e].cache_idx = app.idx]
        h3 == [mem |-> m3, freelist |-> a.freelist,
               freelist_size |-> a.freelist_size, allocated |-> a.allocated]
        indexFails == fail = "index" \/ key \in UnhashableKeys
        err == IF fail = "index" THEN "MemoryError" ELSE "TypeError"
    IN  IF e = NULL
        THEN Raises(op, key, value, "MemoryError", NoVal)
        ELSE /\ head' = IF tail # NULL THEN head ELSE e
             /\ tail' = e
             /\ size' = size + 1
             /\ SetCache(app.cache)
             /\ UNCHANGED ub
             /\ IF indexFails
                THEN /\ SetHeap(entry_free(h3, e), app.cache)
                     /\ UNCHANGED dict
                     /\ ReturnsLinked(Call(op, key, value, err, NoKey, NoVal))
                ELSE /\ SetHeap(h3, app.cache)
                     /\ dict' = PyDict_SetItem(dict, key, e)
                     /\ Returns(Call(op, key, value, Ok, NoKey,
                            IF op = "setdefault" THEN value ELSE NoVal))

\* Unlinking entry e from the list (the "Unlink from list" blocks).
Unlink(m, e) ==
    LET m1 == IF m[e].prev # NULL
              THEN [m EXCEPT ![m[e].prev].next = m[e].next] ELSE m
        h1 == IF m[e].prev # NULL THEN head ELSE m[e].next
        m2 == IF m1[e].next # NULL
              THEN [m1 EXCEPT ![m1[e].next].prev = m1[e].prev] ELSE m1
        t1 == IF m1[e].next # NULL THEN tail ELSE m1[e].prev
    IN  [mem |-> m2, head |-> h1, tail |-> t1]

\* RemoveEntry with a fault: the position cache is left as it was.
RemoveEntry_KeepsCache(key, e) ==
    LET u == Unlink(mem, e)
    IN  /\ head' = u.head
        /\ tail' = u.tail
        /\ dict' = PyDict_DelItem(dict, key)
        /\ SetHeap(entry_free([Heap EXCEPT !.mem = Py_DECREF(u.mem, e)], e), Cache)
        /\ size' = size - 1
        /\ UNCHANGED <<cacheVars, ub>>

\* Removing entry e found under key: unlink, drop from the index, release,
\* decrement size, invalidate the cache.
RemoveEntry(key, e) ==
    LET u == Unlink(mem, e)
        c == DequeDict_invalidate_cache(Cache)
    IN  /\ head' = u.head
        /\ tail' = u.tail
        /\ dict' = PyDict_DelItem(dict, key)
        /\ SetHeap(entry_free([Heap EXCEPT !.mem = Py_DECREF(u.mem, e)], e), c)
        /\ size' = size - 1
        /\ SetCache(c)
        /\ UNCHANGED ub

\* DequeDict_setitem with value == NULL: del d[key].
DelItem(key) ==
    LET entry == PyDict_GetItem(dict, key)
    IN  IF entry = NULL
        THEN Raises("delitem", key, NoVal, "KeyError", NoVal)
        ELSE IF ~Referenced(mem, entry)
        THEN Undefined("delitem", key)
        ELSE /\ RemoveEntry(key, entry)
             /\ Returns(Call("delitem", key, NoVal, Ok, NoKey, NoVal))

DequeDict_setitem(key, value, fail) ==
    /\ Ready
    /\ IF PyDict_GetItem(dict, key) # NULL
       THEN fail = "none" /\ SetExisting(key, value)
       ELSE /\ cache_size < MaxCacheSize
            /\ CanFail(fail, TRUE)
            /\ SetNew("setitem", key, value, fail)

DequeDict_delitem(key) ==
    /\ Ready
    /\ DelItem(key)

(* Calls that only read: what each returns is given by the operator whose   *)
(* name ends in Result.                                                     *)
Result(err, rk, rv) == [err |-> err, rk |-> rk, rv |-> rv]

\* DequeDict_getitem: d[key]
GetItemResult(key) ==
    LET entry == PyDict_GetItem(dict, key)
    IN  IF entry = NULL THEN Result("KeyError", NoKey, NoVal)
        ELSE IF ~Referenced(mem, entry) THEN Result("undefined", NoKey, NoVal)
        ELSE Result(Ok, NoKey, mem[entry].value)

DequeDict_getitem(key) ==
    /\ Ready
    /\ Reads("getitem", key, NoVal, GetItemResult(key))

\* GetResult with a fault: an absent key raises as d[key] does.
GetResult_RaisesOnAbsent(key, default) ==
    LET entry == PyDict_GetItem(dict, key)
    IN  IF entry = NULL THEN Result("KeyError", NoKey, NoVal)
        ELSE IF ~Referenced(mem, entry) THEN Result("undefined", NoKey, NoVal)
        ELSE Result(Ok, NoKey, mem[entry].value)

\* DequeDict_get: d.get(key, default); default NoVal stands for None.
GetResult(key, default) ==
    LET entry == PyDict_GetItem(dict, key)
    IN  IF entry = NULL THEN Result(Ok, NoKey, default)
        ELSE IF ~Referenced(mem, entry) THEN Result("undefined", NoKey, NoVal)
        ELSE Result(Ok, NoKey, mem[entry].value)

DequeDict_get(key, default) ==
    /\ Ready
    /\ Reads("get", key, default, GetResult(key, default))

\* DequeDict_contains: key in d
ContainsResult(key) ==
    LET r == PyDict_Contains(dict, key)
    IN  IF r < 0 THEN Result("TypeError", NoKey, NoVal) ELSE Result(Ok, NoKey, r)

DequeDict_contains(key) ==
    /\ Ready
    /\ Reads("contains", key, NoVal, ContainsResult(key))

\* DequeDict_peekleft, peekleftitem, peekleftkey, peek, peekitem
PeekOps == {"peekleft", "peekleftitem", "peekleftkey", "peek", "peekitem"}

\* PeekResult with a fault: None is returned for an empty container.
PeekResult_NoneOnEmpty(op) ==
    LET e == IF op \in {"peek", "peekitem"} THEN tail ELSE head
    IN  IF e = NULL THEN Result(Ok, NoKey, NoVal)
        ELSE IF ~Referenced(mem, e) THEN Result("undefined", NoKey, NoVal)
        ELSE Result(Ok,
                    IF op \in {"peekleftitem", "peekleftkey", "peekitem"}
                    THEN mem[e].key ELSE NoKey,
                    IF op = "peekleftkey" THEN NoVal ELSE mem[e].value)

PeekResult(op) ==
    LET e == IF op \in {"peek", "peekitem"} THEN tail ELSE head
    IN  IF e = NULL THEN Result("IndexError", NoKey, NoVal)
        ELSE IF ~Referenced(mem, e) THEN Result("undefined", NoKey, NoVal)
        ELSE Result(Ok,
                    IF op \in {"peekleftitem", "peekleftkey", "peekitem"}
                    THEN mem[e].key ELSE NoKey,
                    IF op = "peekleftkey" THEN NoVal ELSE mem[e].value)

DequeDict_peek(op) ==
    /\ Ready
    /\ Reads(op, NoKey, NoVal, PeekResult(op))

(* ------------------------ calls that remove --------------------------- *)
\* popleft, popleftitem, pop() and popitem ignore what PyDict_DelItem returns.
\* When the key of the entry is not in the index (or cannot be hashed) the
\* exception it set is still pending at the return, and the interpreter
\* replaces the result by a SystemError; the container stays as changed.
Popped(op, e, rk, rv) ==
    IF PyDict_Contains(dict, mem[e].key) = 1
    THEN Call(op, NoKey, NoVal, Ok, rk, rv)
    ELSE Call(op, NoKey, NoVal, "SystemError", NoKey, NoVal)

\* The body shared by popleft and popleftitem once head is known non-NULL:
\* unlink the head, drop its key from the index, release it, bump the offset.
PopHead ==
    LET entry == head
        nh == mem[entry].next
        m1 == IF nh # NULL THEN [mem EXCEPT ![nh].prev = NULL] ELSE mem
        c == IF index_cache # NullCache
             THEN [Cache EXCEPT !.cache_offset = cache_offset + 1]
             ELSE Cache
    IN  /\ head' = nh
        /\ tail' = IF nh # NULL THEN tail ELSE NULL
        /\ dict' = PyDict_DelItem(dict, m1[entry].key)
        /\ SetHeap(entry_free([Heap EXCEPT !.mem = Py_DECREF(m1, entry)], entry), c)
        /\ size' = size - 1
        /\ SetCache(c)
        /\ UNCHANGED ub

\* DequeDict_popleft
DequeDict_popleft ==
    /\ Ready
    /\ IF head = NULL
       THEN Raises("popleft", NoKey, NoVal, "IndexError", NoVal)
       ELSE IF ~Referenced(mem, head)
       THEN Undefined("popleft", NoKey)
       ELSE /\ PopHead
            /\ Returns(Popped("popleft", head, NoKey, mem[head].value))

\* DequeDict_popleftitem
DequeDict_popleftitem ==
    /\ Ready
    /\ IF head = NULL
       THEN Raises("popleftitem", NoKey, NoVal, "KeyError", NoVal)
       ELSE IF ~Referenced(mem, head)
       THEN Undefined("popleftitem", NoKey)
       ELSE /\ PopHead
            /\ Returns(Popped("popleftitem", head, mem[head].key, mem[head].value))

\* The body shared by pop() and popitem once tail is known non-NULL:
\* unlink the tail, drop its key from the index, release it, trim the cache.
PopTail ==
    LET entry == tail
        nt == mem[entry].prev
        m1 == IF nt # NULL THEN [mem EXCEPT ![nt].next = NULL] ELSE mem
        c == IF index_cache # NullCache /\ cache_size > 0
             THEN [Cache EXCEPT !.cache_size = cache_size - 1]
             ELSE Cache
    IN  /\ tail' = nt
        /\ head' = IF nt # NULL THEN head ELSE NULL
        /\ dict' = PyDict_DelItem(dict, m1[entry].key)
        /\ SetHeap(entry_free([Heap EXCEPT !.mem = Py_DECREF(m1, entry)], entry), c)
        /\ size' = size - 1
        /\ SetCache(c)
        /\ UNCHANGED ub

\* PopKey with a fault: the default is not looked at.
PopKey_IgnoresDefault(key, default) ==
    LET entry == PyDict_GetItem(dict, key)
    IN  IF entry = NULL
        THEN Raises("pop", key, default, "KeyError", NoVal)
        ELSE IF ~Referenced(mem, entry)
        THEN Undefined("pop", key)
        ELSE /\ RemoveEntry(key, entry)
             /\ Returns(Call("pop", key, default, Ok, NoKey, mem[entry].value))

\* DequeDict_pop with a key (and maybe a default; NoVal: none given).
PopKey(key, default) ==
    LET entry == PyDict_GetItem(dict, key)
    IN  IF entry = NULL
        THEN IF default # NoVal
             THEN Raises("pop", key, default, Ok, default)
             ELSE Raises("pop", key, default, "KeyError", NoVal)
        ELSE IF ~Referenced(mem, entry)
        THEN Undefined("pop", key)
        ELSE /\ RemoveEntry(key, entry)
             /\ Returns(Call("pop", key, default, Ok, NoKey, mem[entry].value))

\* DequeDict_pop without arguments: pop from the right.
PopRight ==
    IF tail = NULL
    THEN Raises("pop", NoKey, NoVal, "IndexError", NoVal)
    ELSE IF ~Referenced(mem, tail)
    THEN Undefined("pop", NoKey)
    ELSE /\ PopTail
         /\ Returns(Popped("pop", tail, NoKey, mem[tail].value))

\* DequeDict_pop: key NoKey is the call without arguments.
DequeDict_pop(key, default) ==
    /\ Ready
    /\ IF key = NoKey
       THEN default = NoVal /\ PopRight
       ELSE PopKey(key, default)

\* DequeDict_popitem
DequeDict_popitem ==
    /\ Ready
    /\ IF tail = NULL
       THEN Raises("popitem", NoKey, NoVal, "KeyError", NoVal)
       ELSE IF ~Referenced(mem, tail)
       THEN Undefined("popitem", NoKey)
       ELSE /\ PopTail
            /\ Returns(Popped("popitem", tail, mem[tail].key, mem[tail].value))

\* Releasing the entries es in order, as the loop of clear() does.
RECURSIVE FreeAll(_, _)
FreeAll(h, es) ==
    IF es = <<>> THEN h
    ELSE FreeAll(entry_free([h EXCEPT !.mem = Py_DECREF(h.mem, Head(es))],
                            Head(es)), Tail(es))

\* DequeDict_clear_method.  On a cyclic list the loop never ends.
DequeDict_clear_method ==
    /\ Ready
    /\ IF Cyclic \/ \E i \in DOMAIN Entries : ~Referenced(mem, Entries[i])
       THEN Undefined("clear", NoKey)
       ELSE LET c == DequeDict_invalidate_cache(Cache)
            IN  /\ SetHeap(FreeAll(Heap, Entries), c)
                /\ dict' = EmptyDict
                /\ head' = NULL
                /\ tail' = NULL
                /\ size' = 0
                /\ SetCache(c)
                /\ UNCHANGED ub
                /\ Returns(Call("clear", NoKey, NoVal, Ok, NoKey, NoVal))

(* ------------------------ calls that insert ---------------------------- *)
\* DequeDict_appendleft, key absent: a new entry is linked before the head.
AppendLeftNew(key, value, fail) ==
    LET a == entry_alloc(Heap, fail = "alloc")
        e == a.entry
        m1 == [mem EXCEPT ![e] = DequeDictEntry(key, value, NULL, head, -1)]
        m2 == IF head # NULL THEN [m1 EXCEPT ![head].prev = e] ELSE m1
        h2 == [mem |-> m2, freelist |-> a.freelist,
               freelist_size |-> a.freelist_size, allocated |-> a.allocated]
        c == DequeDict_invalidate_cache(Cache)
    IN  IF e = NULL
        THEN Raises("appendleft", key, value, "MemoryError", NoVal)
        ELSE /\ tail' = IF head # NULL THEN tail ELSE e
             /\ head' = e
             /\ size' = size + 1
             /\ SetCache(c)
             /\ UNCHANGED ub
             /\ IF fail = "index"
                THEN /\ SetHeap(entry_free(h2, e), c)
                     /\ UNCHANGED dict
                     /\ ReturnsLinked(Call("appendleft", key, value,
                                           "MemoryError", NoKey, NoVal))
                ELSE /\ SetHeap(h2, c)
                     /\ dict' = PyDict_SetItem(dict, key, e)
                     /\ Returns(Call("appendleft", key, value, Ok, NoKey, NoVal))

\* AppendLeftDuplicate with a fault: the cache is invalidated before the
\* key is looked up.
AppendLeftDuplicate_DropsCache(key, value) ==
    LET c == DequeDict_invalidate_cache(Cache)
    IN  /\ mem' = Stored(mem, c)
        /\ SetCache(c)
        /\ last' = Call("appendleft", key, value, "KeyError", NoKey, NoVal)
        /\ UNCHANGED <<allocated, freelist, freelist_size, dict, listVars, ub,
                       steps, failed, envVars>>

\* AppendLeftDuplicate with a fault: a kind of error of its own is raised.
AppendLeftDuplicate_ValueError(key, value) ==
    Raises("appendleft", key, value, "ValueError", NoVal)

\* DequeDict_appendleft, key present (or not hashable): KeyError, no change.
AppendLeftDuplicate(key, value) ==
    Raises("appendleft", key, value, "KeyError", NoVal)

DequeDict_appendleft(key, value, fail) ==
    /\ Ready
    /\ IF PyDict_Contains(dict, key) # 0
       THEN fail = "none" /\ AppendLeftDuplicate(key, value)
       ELSE CanFail(fail, FALSE) /\ AppendLeftNew(key, value, fail)

\* DequeDict_setdefault
DequeDict_setdefault(key, default, fail) ==
    /\ Ready
    /\ LET entry == PyDict_GetItem(dict, key)
       IN  IF entry # NULL
           THEN /\ fail = "none"
                /\ IF Referenced(mem, entry)
                   THEN Raises("setdefault", key, default, Ok, mem[entry].value)
                   ELSE Undefined("setdefault", key)
           ELSE /\ cache_size < MaxCacheSize
                /\ CanFail(fail, TRUE)
                /\ SetNew("setdefault", key, default, fail)

(* ------------------------- positional access --------------------------- *)
\* DequeDict_at on the current state: what it returns and the cache and
\* heap it leaves.  rv is the value returned when err = Ok.
At(index, mallocFails) ==
    LET r == IF index_cache = NullCache
             THEN DequeDict_rebuild_cache(mallocFails)
             ELSE [cache |-> Cache, mem |-> mem, rc |-> 0, ub |-> FALSE]
        c == r.cache
        logical_size == c.cache_size - c.cache_offset
        i == IF index < 0 THEN index + logical_size ELSE index
        slot == c.index_cache[c.cache_offset + i + 1]
    IN  IF r.ub
        THEN [r EXCEPT !.cache = Cache] @@ [err |-> "undefined", rv |-> NoVal]
        ELSE IF r.rc < 0
        THEN r @@ [err |-> "MemoryError", rv |-> NoVal]
        ELSE IF c.index_cache = NullCache
        THEN r @@ [err |-> "IndexError", rv |-> NoVal]
        ELSE IF i < 0 \/ i >= logical_size
        THEN r @@ [err |-> "IndexError", rv |-> NoVal]
        ELSE IF slot = Garbage \/ ~Referenced(r.mem, slot)
        THEN [r EXCEPT !.ub = TRUE] @@ [err |-> "undefined", rv |-> NoVal]
        ELSE r @@ [err |-> Ok, rv |-> r.mem[slot].value]

DequeDict_at(index, mallocFails) ==
    /\ Ready
    /\ mallocFails => index_cache = NullCache /\ size > 0
    /\ LET r == At(index, mallocFails)
       IN  /\ SetCache(r.cache)
           /\ mem' = Stored(r.mem, r.cache)
           /\ ub' = r.ub
           /\ UNCHANGED <<allocated, freelist, freelist_size, dict, listVars>>
           /\ Returns(Call("at", NoKey, index, r.err, NoKey, r.rv))

(* ----------------------------- reordering ------------------------------ *)
\* DequeDict_move_to_end, entry not yet at the requested end.
MoveEntry(key, entry, toLast) ==
    LET u == Unlink(mem, entry)
        m1 == IF toLast
              THEN [u.mem EXCEPT ![entry].prev = u.tail, ![entry].next = NULL]
              ELSE [u.mem EXCEPT ![entry].prev = NULL, ![entry].next = u.head]
        m2 == IF toLast
              THEN IF u.tail # NULL THEN [m1 EXCEPT ![u.tail].next = entry] ELSE m1
              ELSE IF u.head # NULL THEN [m1 EXCEPT ![u.head].prev = entry] ELSE m1
        c == DequeDict_invalidate_cache(Cache)
    IN  /\ mem' = Stored(m2, c)
        /\ head' = IF toLast THEN (IF u.tail # NULL THEN u.head ELSE entry)
                   ELSE entry
        /\ tail' = IF toLast THEN entry
                   ELSE (IF u.head # NULL THEN u.tail ELSE entry)
        /\ SetCache(c)
        /\ UNCHANGED <<allocated, freelist, freelist_size, dict, size, ub>>

\* DequeDict_move_to_end(key, last); the call records last as 1 or 0.
DequeDict_move_to_end(key, toLast) ==
    /\ Ready
    /\ LET entry == PyDict_GetItem(dict, key)
           flag == IF toLast THEN 1 ELSE 0
       IN  IF entry = NULL
           THEN Raises("move_to_end", key, flag, "KeyError", NoVal)
           ELSE IF (toLast /\ entry = tail) \/ (~toLast /\ entry = head)
           THEN Raises("move_to_end", key, flag, Ok, NoVal)
           ELSE /\ MoveEntry(key, entry, toLast)
                /\ Returns(Call("move_to_end", key, flag, Ok, NoKey, NoVal))

(* ----------------------------- construction --------------------------- *)
\* The loop of DequeDict_init over the pairs of items, from container st =
\* [h, dict, head, tail, size]: the container it leaves, the error raised
\* and whether it returned with a released entry still linked.
RECURSIVE InitPairs(_, _, _)
InitPairs(st, items, mallocFails) ==
    IF items = <<>>
    THEN st @@ [err |-> Ok, linked |-> FALSE]
    ELSE LET key == items[1][1]
             value == items[1][2]
             a == entry_alloc(st.h, mallocFails)
             e == a.entry
             m1 == [a.mem EXCEPT ![e] = DequeDictEntry(key, value, st.tail, NULL, -1)]
             m2 == IF st.tail # NULL THEN [m1 EXCEPT ![st.tail].next = e] ELSE m1
             h2 == [mem |-> m2, freelist |-> a.freelist,
                    freelist_size |-> a.freelist_size, allocated |-> a.allocated]
             st2 == [h |-> h2, dict |-> st.dict,
                     head |-> IF st.tail # NULL THEN st.head ELSE e,
                     tail |-> e, size |-> st.size + 1]
         IN  IF e = NULL
             THEN st @@ [err |-> "MemoryError", linked |-> FALSE]
             ELSE IF key \in UnhashableKeys
             THEN [st2 EXCEPT !.h = entry_free(h2, e)]
                      @@ [err |-> "TypeError", linked |-> TRUE]
             ELSE InitPairs([st2 EXCEPT !.dict = PyDict_SetItem(st.dict, key, e)],
                            Tail(items), mallocFails)

Pairs == AllKeys \X Values
ItemSeqs == UNION {[1..n -> Pairs] : n \in 0..MaxItems}

\* DequeDict_init(items): the entries held so far are released, then one
\* entry per pair is appended.  Called by the constructor and by __init__.
DequeDict_init(items, mallocFails) ==
    /\ Ready
    /\ mallocFails => items # <<>>
    /\ IF Cyclic \/ \E i \in DOMAIN Entries : ~Referenced(mem, Entries[i])
       THEN Undefined("init", NoKey)
       ELSE LET c == DequeDict_invalidate_cache(Cache)
                st == [h |-> FreeAll(Heap, Entries), dict |-> EmptyDict,
                       head |-> NULL, tail |-> NULL, size |-> 0]
                r == InitPairs(st, items, mallocFails)
                ret == Call("init", NoKey, items, r.err, NoKey, NoVal)
            IN  /\ SetHeap(r.h, c)
                /\ dict' = r.dict
                /\ head' = r.head
                /\ tail' = r.tail
                /\ size' = r.size
                /\ SetCache(c)
                /\ UNCHANGED ub
                /\ IF r.linked THEN ReturnsLinked(ret) ELSE Returns(ret)

(* ------------------------------ equality ------------------------------- *)
\* What == and != are given on the other side: a mapping from keys to
\* values (a dict, or another container through its len and d[key]).
MappingKeys == {"a", "b"}
Mappings == UNION {[ks -> Values] : ks \in SUBSET MappingKeys}

\* The loop of DequeDict_richcompare from entry e, with at most n entries
\* to go: "equal" when the end of the list is reached, "differ" at the first
\* key that other lacks or holds with another value, the error of
\* PyObject_GetItem for a key that cannot be hashed.  On a cyclic list whose
\* entries all agree the loop never ends.
RECURSIVE CompareFrom(_, _, _)
CompareFrom(other, e, n) ==
    IF e = NULL THEN "equal"
    ELSE IF n = 0 \/ ~Referenced(mem, e) THEN "undefined"
    ELSE IF mem[e].key \in UnhashableKeys THEN "TypeError"
    ELSE IF mem[e].key \notin DOMAIN other THEN "differ"
    ELSE IF other[mem[e].key] # mem[e].value THEN "differ"
    ELSE CompareFrom(other, mem[e].next, n - 1)

\* RichCompareResult with a fault: the sizes are not compared first.
RichCompareResult_NoSizeCheck(other, op) ==
    LET c == CompareFrom(other, head, WalkLimit)
    IN  IF c = "equal" THEN Result(Ok, NoKey, IF op = "==" THEN 1 ELSE 0)
        ELSE IF c = "differ" THEN Result(Ok, NoKey, IF op = "==" THEN 0 ELSE 1)
        ELSE Result(c, NoKey, NoVal)

\* DequeDict_richcompare(self, other, op) for op "==" or "!=": rv is 1 for
\* True and 0 for False.
RichCompareResult(other, op) ==
    LET c == CompareFrom(other, head, WalkLimit)
    IN  IF size # Cardinality(DOMAIN other)
        THEN Result(Ok, NoKey, IF op = "==" THEN 0 ELSE 1)
        ELSE IF c = "equal" THEN Result(Ok, NoKey, IF op = "==" THEN 1 ELSE 0)
        ELSE IF c = "differ" THEN Result(Ok, NoKey, IF op = "==" THEN 0 ELSE 1)
        ELSE Result(c, NoKey, NoVal)

DequeDict_richcompare(other, op) ==
    /\ Ready
    /\ Reads(op, NoKey, NoVal, RichCompareResult(other, op))

(* ------------------------------ iterators ------------------------------ *)
\* An iterator: the entry it stands on, what it yields (kind 0 keys, 1
\* values, 2 items) and its direction.  type names the object: "iter" for
\* iter(d), "reversed" for reversed(d), "view" for the iterators of the
\* keys(), values() and items() views.
Iterator(type, current, kind, reverse) ==
    [type |-> type, current |-> current, kind |-> kind, reverse |-> reverse]

DequeDict_iter == Iterator("iter", head, 0, 0)
DequeDict_reversed == Iterator("reversed", tail, 0, 1)
DequeDictView_iter(kind) == Iterator("view", head, kind, 0)
DequeDictView_reversed(kind) == Iterator("view", tail, kind, 1)

\* No iterator has been made.
NoIterator == [live |-> FALSE, current |-> NULL]

StopIteration == Result("StopIteration", NoKey, NoVal)

\* What an iterator standing on entry e yields for its kind.
Yield(e, kind) ==
    IF ~Referenced(mem, e) THEN Result("undefined", NoKey, NoVal)
    ELSE Result(Ok, IF kind = 1 THEN NoKey ELSE mem[e].key,
                    IF kind = 0 THEN NoVal ELSE mem[e].value)

\* The three tp_iternext functions: the iterator after the call and the
\* result of the call.
\* DequeDictIter_next with a guard the code does not have: the iterator
\* ends when its entry is no longer in the list.
DequeDictIter_next_Guarded(it) ==
    IF it.current = NULL \/ it.current \notin Range(Entries)
    THEN [it |-> it, res |-> StopIteration]
    ELSE [it |-> [it EXCEPT !.current = mem[it.current].next],
          res |-> Yield(it.current, 0)]

DequeDictIter_next(it) ==
    IF it.current = NULL THEN [it |-> it, res |-> StopIteration]
    ELSE [it |-> [it EXCEPT !.current = mem[it.current].next],
          res |-> Yield(it.current, 0)]

DequeDictRevIter_next(it) ==
    IF it.current = NULL THEN [it |-> it, res |-> StopIteration]
    ELSE [it |-> [it EXCEPT !.current = mem[it.current].prev],
          res |-> Yield(it.current, 0)]

DequeDictViewIter_next(it) ==
    IF it.current = NULL THEN [it |-> it, res |-> StopIteration]
    ELSE [it |-> [it EXCEPT !.current = IF it.reverse = 1
                                        THEN mem[it.current].prev
                                        ELSE mem[it.current].next],
          res |-> Yield(it.current, it.kind)]

\* next(it)
IterNext(it) ==
    IF it.type = "iter" THEN DequeDictIter_next(it)
    ELSE IF it.type = "reversed" THEN DequeDictRevIter_next(it)
    ELSE DequeDictViewIter_next(it)

\* The results of n calls of next(it) with no other call in between.
RECURSIVE Yields(_, _)
Yields(it, n) ==
    IF n <= 0 THEN <<>>
    ELSE <<IterNext(it).res>> \o Yields(IterNext(it).it, n - 1)

Iterators ==
    {DequeDict_iter, DequeDict_reversed}
        \cup {DequeDictView_iter(kind) : kind \in 0..2}
        \cup {DequeDictView_reversed(kind) : kind \in 0..2}

\* list(it): the iterator is run until it stops.  The call records the
\* direction and the number of results; a run that has not stopped after
\* WalkLimit results is on a cycle and never stops.
DequeDict_iterate(it) ==
    LET ys == Yields(it, WalkLimit + 1)
        n == Cardinality({i \in DOMAIN ys : ys[i] # StopIteration})
        err == IF n > WalkLimit
                  \/ \E i \in DOMAIN ys : ys[i].err = "undefined"
               THEN "undefined" ELSE Ok
    IN  /\ Ready
        /\ Reads(IF it.reverse = 1 THEN "reversed" ELSE "iter", NoKey, NoVal,
                 Result(err, NoKey, n))

\* The calls that can change the list.
Changing == {"setitem", "delitem", "pop", "popitem", "popleft", "popleftitem",
             "appendleft", "move_to_end", "clear", "setdefault"}

(* ----------------- the variant without a position cache ---------------- *)
(* src/unnamed/part_000: the same container with no index_cache, no        *)
(* cache_idx and no at().  Each call is an operator from the current list,  *)
(* index and pool to the state the call leaves and what it returns.         *)
NoCacheMem(m) == [a \in Addr |-> [m[a] EXCEPT !.cache_idx = -1]]

NoCacheState(h, d, hd, tl, sz) ==
    [mem |-> NoCacheMem(h.mem), allocated |-> h.allocated,
     freelist |-> h.freelist, freelist_size |-> h.freelist_size,
     dict |-> d, head |-> hd, tail |-> tl, size |-> sz]

\* The fields the two variants have in common.
Projection == NoCacheState(Heap, dict, head, tail, size)

NoCacheReturn(st, err, rk, rv) == [st |-> st, err |-> err, rk |-> rk, rv |-> rv]
NoCacheRaise(err) == NoCacheReturn(Projection, err, NoKey, NoVal)

NoCache_getitem(key) ==
    LET entry == PyDict_GetItem(dict, key)
    IN  IF entry = NULL THEN NoCacheRaise("KeyError")
        ELSE IF ~Referenced(mem, entry) THEN NoCacheRaise("undefined")
        ELSE NoCacheReturn(Projection, Ok, NoKey, mem[entry].value)

\* DequeDict_setitem of part_000, value given.
NoCache_setitem(op, key, value, fail) ==
    LET entry == PyDict_GetItem(dict, key)
        a == entry_alloc(Heap, fail = "alloc")
        e == a.entry
        m1 == [mem EXCEPT ![e] = DequeDictEntry(key, value, tail, NULL, -1)]
        m2 == IF tail # NULL THEN [m1 EXCEPT ![tail].next = e] ELSE m1
        h2 == [mem |-> m2, freelist |-> a.freelist,
               freelist_size |-> a.freelist_size, allocated |-> a.allocated]
        hd == IF tail # NULL THEN head ELSE e
    IN  IF entry # NULL
        THEN IF ~Referenced(mem, entry) THEN NoCacheRaise("undefined")
             ELSE NoCacheReturn(
                      NoCacheState([Heap EXCEPT !.mem[entry].value = value],
                                   dict, head, tail, size),
                      Ok, NoKey, NoVal)
        ELSE IF e = NULL THEN NoCacheRaise("MemoryError")
        ELSE IF fail = "index"
        THEN NoCacheReturn(NoCacheState(entry_free(h2, e), dict, hd, e, size + 1),
                           "MemoryError", NoKey, NoVal)
        ELSE IF key \in UnhashableKeys
        THEN NoCacheReturn(NoCacheState(entry_free(h2, e), dict, hd, e, size + 1),
                           "TypeError", NoKey, NoVal)
        ELSE NoCacheReturn(NoCacheState(h2, PyDict_SetItem(dict, key, e),
                                        hd, e, size + 1),
                           Ok, NoKey, IF op = "setdefault" THEN value ELSE NoVal)

\* The removal of entry found under key, as del d[key] and pop(key) do it.
NoCache_remove(key, entry, rv) ==
    LET u == Unlink(mem, entry)
    IN  NoCacheReturn(
            NoCacheState(entry_free([Heap EXCEPT !.mem = Py_DECREF(u.mem, entry)],
                                    entry),
                         PyDict_DelItem(dict, key), u.head, u.tail, size - 1),
            Ok, NoKey, rv)

\* DequeDict_setitem of part_000, value == NULL.
NoCache_delitem(key) ==
    LET entry == PyDict_GetItem(dict, key)
    IN  IF entry = NULL THEN NoCacheRaise("KeyError")
        ELSE IF ~Referenced(mem, entry) THEN NoCacheRaise("undefined")
        ELSE NoCache_remove(key, entry, NoVal)

NoCache_get(key, default) ==
    LET entry == PyDict_GetItem(dict, key)
    IN  IF entry = NULL THEN NoCacheReturn(Projection, Ok, NoKey, default)
        ELSE IF ~Referenced(mem, entry) THEN NoCacheRaise("undefined")
        ELSE NoCacheReturn(Projection, Ok, NoKey, mem[entry].value)

NoCache_contains(key) ==
    IF PyDict_Contains(dict, key) < 0 THEN NoCacheRaise("TypeError")
    ELSE NoCacheReturn(Projection, Ok, NoKey, PyDict_Contains(dict, key))

NoCache_peek(op) ==
    LET e == IF op \in {"peek", "peekitem"} THEN tail ELSE head
    IN  IF e = NULL THEN NoCacheRaise("IndexError")
        ELSE IF ~Referenced(mem, e) THEN NoCacheRaise("undefined")
        ELSE NoCacheReturn(Projection, Ok,
                 IF op \in {"peekleftitem", "peekleftkey", "peekitem"}
                 THEN mem[e].key ELSE NoKey,
                 IF op = "peekleftkey" THEN NoVal ELSE mem[e].value)

\* What a pop from an end returns: PyDict_DelItem's result is not looked
\* at, and an exception it left pending turns the return into a SystemError.
NoCachePopped(st, e, rk, rv) ==
    IF PyDict_Contains(dict, mem[e].key) = 1
    THEN NoCacheReturn(st, Ok, rk, rv)
    ELSE NoCacheReturn(st, "SystemError", NoKey, NoVal)

\* DequeDict_popleft and DequeDict_popleftitem of part_000.
NoCache_popleft(op) ==
    LET nh == mem[head].next
        m1 == IF nh # NULL THEN [mem EXCEPT ![nh].prev = NULL] ELSE mem
        st == NoCacheState(
                  entry_free([Heap EXCEPT !.mem = Py_DECREF(m1, head)], head),
                  PyDict_DelItem(dict, mem[head].key),
                  nh, IF nh # NULL THEN tail ELSE NULL, size - 1)
    IN  IF head = NULL
        THEN NoCacheRaise(IF op = "popleft" THEN "IndexError" ELSE "KeyError")
        ELSE IF ~Referenced(mem, head) THEN NoCacheRaise("undefined")
        ELSE NoCachePopped(st, head,
                 IF op = "popleft" THEN NoKey ELSE mem[head].key, mem[head].value)

\* DequeDict_pop without a key and DequeDict_popitem of part_000.
NoCache_popright(op) ==
    LET nt == mem[tail].prev
        m1 == IF nt # NULL THEN [mem EXCEPT ![nt].next = NULL] ELSE mem
        st == NoCacheState(
                  entry_free([Heap EXCEPT !.mem = Py_DECREF(m1, tail)], tail),
                  PyDict_DelItem(dict, mem[tail].key),
                  IF nt # NULL THEN head ELSE NULL, nt, size - 1)
    IN  IF tail = NULL
        THEN NoCacheRaise(IF op = "pop" THEN "IndexError" ELSE "KeyError")
        ELSE IF ~Referenced(mem, tail) THEN NoCacheRaise("undefined")
        ELSE NoCachePopped(st, tail,
                 IF op = "pop" THEN NoKey ELSE mem[tail].key, mem[tail].value)

\* DequeDict_pop of part_000.
NoCache_pop(key, default) ==
    LET entry == PyDict_GetItem(dict, key)
    IN  IF key = NoKey THEN NoCache_popright("pop")
        ELSE IF entry = NULL
        THEN IF default # NoVal
             THEN NoCacheReturn(Projection, Ok, NoKey, default)
             ELSE NoCacheRaise("KeyError")
        ELSE IF ~Referenced(mem, entry) THEN NoCacheRaise("undefined")
        ELSE NoCache_remove(key, entry, mem[entry].value)

\* DequeDict_appendleft of part_000.
NoCache_appendleft(key, value, fail) ==
    LET a == entry_alloc(Heap, fail = "alloc")
        e == a.entry
        m1 == [mem EXCEPT ![e] = DequeDictEntry(key, value, NULL, head, -1)]
        m2 == IF head # NULL THEN [m1 EXCEPT ![head].prev = e] ELSE m1
        h2 == [mem |-> m2, freelist |-> a.freelist,
               freelist_size |-> a.freelist_size, allocated |-> a.allocated]
        tl == IF head # NULL THEN tail ELSE e
    IN  IF PyDict_Contains(dict, key) # 0 THEN NoCacheRaise("KeyError")
        ELSE IF e = NULL THEN NoCacheRaise("MemoryError")
        ELSE IF fail = "index"
        THEN NoCacheReturn(NoCacheState(entry_free(h2, e), dict, e, tl, size + 1),
                           "MemoryError", NoKey, NoVal)
        ELSE NoCacheReturn(NoCacheState(h2, PyDict_SetItem(dict, key, e),
                                        e, tl, size + 1),
                           Ok, NoKey, NoVal)

\* DequeDict_clear_method of part_000.
NoCache_clear ==
    IF Cyclic \/ \E i \in DOMAIN Entries : ~Referenced(mem, Entries[i])
    THEN NoCacheRaise("undefined")
    ELSE NoCacheReturn(NoCacheState(FreeAll(Heap, Entries), EmptyDict,
                                    NULL, NULL, 0),
                       Ok, NoKey, NoVal)

\* DequeDict_setdefault of part_000.
NoCache_setdefault(key, default, fail) ==
    LET entry == PyDict_GetItem(dict, key)
    IN  IF entry = NULL THEN NoCache_setitem("setdefault", key, default, fail)
        ELSE IF ~Referenced(mem, entry) THEN NoCacheRaise("undefined")
        ELSE NoCacheReturn(Projection, Ok, NoKey, mem[entry].value)

\* DequeDict_move_to_end of part_000.
NoCache_move_to_end(key, toLast) ==
    LET entry == PyDict_GetItem(dict, key)
        u == Unlink(mem, entry)
        m1 == IF toLast
              THEN [u.mem EXCEPT ![entry].prev = u.tail, ![entry].next = NULL]
              ELSE [u.mem EXCEPT ![entry].prev = NULL, ![entry].next = u.head]
        m2 == IF toLast
              THEN IF u.tail # NULL THEN [m1 EXCEPT ![u.tail].next = entry] ELSE m1
              ELSE IF u.head # NULL THEN [m1 EXCEPT ![u.head].prev = entry] ELSE m1
        hd == IF toLast THEN (IF u.tail # NULL THEN u.head ELSE entry) ELSE entry
        tl == IF toLast THEN entry ELSE (IF u.head # NULL THEN u.tail ELSE entry)
    IN  IF entry = NULL THEN NoCacheRaise("KeyError")
        ELSE IF (toLast /\ entry = tail) \/ (~toLast /\ entry = head)
        THEN NoCacheReturn(Projection, Ok, NoKey, NoVal)
        ELSE NoCacheReturn(NoCacheState([Heap EXCEPT !.mem = m2], dict, hd, tl, size),
                           Ok, NoKey, NoVal)

\* The calls both variants offer with their arguments as a call records
\* them.
NoCacheOps == Changing \cup PeekOps \cup {"getitem", "get", "contains"}

NoCacheCall(op, key, arg, fail) ==
    CASE op = "setitem" -> NoCache_setitem(op, key, arg, fail)
      [] op = "delitem" -> NoCache_delitem(key)
      [] op = "getitem" -> NoCache_getitem(key)
      [] op = "get" -> NoCache_get(key, arg)
      [] op = "contains" -> NoCache_contains(key)
      [] op \in PeekOps -> NoCache_peek(op)
      [] op \in {"popleft", "popleftitem"} -> NoCache_popleft(op)
      [] op = "pop" -> NoCache_pop(key, arg)
      [] op = "popitem" -> NoCache_popright(op)
      [] op = "appendleft" -> NoCache_appendleft(key, arg, fail)
      [] op = "clear" -> NoCache_clear
      [] op = "setdefault" -> NoCache_setdefault(key, arg, fail)
      [] op = "move_to_end" -> NoCache_move_to_end(key, arg = 1)

(* -------------------------------- copy --------------------------------- *)
\* A container as the fields of a DequeDictObject.
Container(live, d, hd, tl, sz, c) ==
    [live |-> live, dict |-> d, head |-> hd, tail |-> tl, size |-> sz,
     index_cache |-> c.index_cache, cache_size |-> c.cache_size,
     cache_capacity |-> c.cache_capacity, cache_offset |-> c.cache_offset]

\* The object PyType_GenericNew makes: every field zero.
NewContainer ==
    [index_cache |-> NullCache, cache_size |-> 0, cache_capacity |-> 0,
     cache_offset |-> 0]

NoPeer == Container(FALSE, EmptyDict, NULL, NULL, 0, NewContainer)

\* The loop of DequeDict_init over the iterator of the items view of the
\* container copied, which is at entry current: each pair is read from the
\* list when the loop asks for it, after the entries for the pairs before
\* it were taken from the pool.  A walk of more than MaxEntries entries is
\* on a cycle and ends only when memory runs out.
RECURSIVE CopyPairs(_, _, _)
CopyPairs(st, current, n) ==
    IF current = NULL
    THEN st @@ [err |-> Ok, linked |-> FALSE]
    ELSE IF n = 0 \/ ~Referenced(st.h.mem, current)
    THEN st @@ [err |-> "undefined", linked |-> FALSE]
    ELSE LET pair == <<st.h.mem[current].key, st.h.mem[current].value>>
             r == InitPairs(st, <<pair>>, FALSE)
         IN  IF r.err # Ok THEN r
             ELSE CopyPairs([h |-> r.h, dict |-> r.dict, head |-> r.head,
                             tail |-> r.tail, size |-> r.size],
                            st.h.mem[current].next, n - 1)

\* DequeDict_copy: DequeDict(self.items()).  When DequeDict_init fails the
\* new object is released, with the entries it had linked (DequeDict_clear).
DequeDict_copy ==
    /\ Ready
    /\ ~peer.live
    /\ LET st == [h |-> Heap, dict |-> EmptyDict, head |-> NULL, tail |-> NULL,
                  size |-> 0]
           r == CopyPairs(st, head, WalkLimit)
           es == WalkNext(r.h.mem, r.head, WalkLimit)
           ret == Call("copy", NoKey, NoVal, r.err, NoKey, NoVal)
       IN  IF r.err = "undefined" THEN Undefined("copy", NoKey)
           ELSE IF r.err = Ok
           THEN /\ SetHeap(r.h, Cache)
                /\ peer' = Container(TRUE, r.dict, r.head, r.tail, r.size,
                                     NewContainer)
                /\ (last' = Unobserved \/ last' = ret)
                /\ steps' = Step
                /\ UNCHANGED <<dict, listVars, cacheVars, ub, failed, iterobj,
                               budget>>
           ELSE IF Len(es) = WalkLimit
                   \/ \E i \in DOMAIN es : ~Referenced(r.h.mem, es[i])
           THEN Undefined("copy", NoKey)
           ELSE /\ SetHeap(FreeAll(r.h, es), Cache)
                /\ UNCHANGED <<dict, listVars, cacheVars, ub>>
                /\ IF r.linked THEN ReturnsLinked(ret) ELSE Returns(ret)

\* The calls that follow go to the other container.
Switch ==
    /\ Ready
    /\ peer.live
    /\ peer' = Container(TRUE, dict, head, tail, size, Cache)
    /\ dict' = peer.dict
    /\ head' = peer.head
    /\ tail' = peer.tail
    /\ size' = peer.size
    /\ SetCache(peer)
    /\ UNCHANGED <<heapVars, last, steps, failed, ub, iterobj, budget>>

(* --------------------------- specification ----------------------------- *)
\* An empty container: DequeDict() on a process whose free list is empty,
\* in a specification that follows b calls after a failed insert.
InitWith(b) ==
    /\ mem = [a \in Addr |-> DequeDictEntry(NoKey, NoVal, NULL, NULL, -1)]
    /\ allocated = {}
    /\ freelist = NULL
    /\ freelist_size = 0
    /\ dict = EmptyDict
    /\ head = NULL
    /\ tail = NULL
    /\ size = 0
    /\ index_cache = NullCache
    /\ cache_size = 0
    /\ cache_capacity = 0
    /\ cache_offset = 0
    /\ last = Unobserved
    /\ steps = 0
    /\ failed = FALSE
    /\ ub = FALSE
    /\ peer = NoPeer
    /\ iterobj = NoIterator
    /\ budget = b

Init == InitWith(MaxSteps)
InitDeep == InitWith(MaxDeepSteps)

\* One call of a method per step.  No call is made once a call has been
\* observed: Ready is tested before the arguments of the call are drawn.
Next ==
    \/ Ready /\ \E k \in AllKeys, v \in Values, f \in FailModes : DequeDict_setitem(k, v, f)
    \/ Ready /\ \E k \in AllKeys : DequeDict_delitem(k)
    \/ Ready /\ \E k \in AllKeys : DequeDict_getitem(k)
    \/ Ready /\ \E k \in AllKeys, d \in {NoVal} \cup Values : DequeDict_get(k, d)
    \/ Ready /\ \E k \in AllKeys : DequeDict_contains(k)
    \/ Ready /\ \E op \in PeekOps : DequeDict_peek(op)
    \/ Ready /\ DequeDict_popleft
    \/ Ready /\ DequeDict_popleftitem
    \/ Ready /\ \E k \in AllKeys \cup {NoKey}, d \in {NoVal} \cup Values : DequeDict_pop(k, d)
    \/ Ready /\ DequeDict_popitem
    \/ Ready /\ \E k \in AllKeys, v \in Values, f \in FailModes : DequeDict_appendleft(k, v, f)
    \/ Ready /\ DequeDict_clear_method
    \/ Ready /\ \E k \in AllKeys, d \in Values, f \in FailModes : DequeDict_setdefault(k, d, f)
    \/ Ready /\ \E i \in Indices, mf \in BOOLEAN : DequeDict_at(i, mf)
    \/ Ready /\ \E k \in AllKeys, l \in BOOLEAN : DequeDict_move_to_end(k, l)
    \/ Ready /\ \E other \in Mappings, op \in {"==", "!="} : DequeDict_richcompare(other, op)
    \/ Ready /\ \E it \in Iterators : DequeDict_iterate(it)

Spec == Init /\ [][Next]_vars

\* Construction alone: DequeDict(items), and __init__(items) again on the
\* container it made.
NextCtor == \E items \in ItemSeqs, mf \in BOOLEAN : DequeDict_init(items, mf)

SpecCtor == Init /\ [][NextCtor]_vars

\* A container and its copy: inserts, removals, moves and positional reads
\* on either of the two, for budget calls that change a variable.
CopyReady == Ready /\ steps < budget

NextCopy ==
    \/ CopyReady /\ \E k \in AllKeys, v \in Values, f \in FailModes : DequeDict_setitem(k, v, f)
    \/ CopyReady /\ \E k \in AllKeys : DequeDict_delitem(k)
    \/ CopyReady /\ DequeDict_popleft
    \/ CopyReady /\ \E i \in Indices, mf \in BOOLEAN : DequeDict_at(i, mf)
    \/ CopyReady /\ \E k \in AllKeys, l \in BOOLEAN : DequeDict_move_to_end(k, l)
    \/ CopyReady /\ DequeDict_copy
    \/ CopyReady /\ Switch

SpecCopy == Init /\ [][NextCopy]_vars

\* The mutations that keep a present cache, the positional read that builds
\* it and the removal by key, followed one call further after a failed
\* insert.
NextCheap ==
    \/ Ready /\ \E k \in AllKeys, v \in Values, f \in FailModes : DequeDict_setitem(k, v, f)
    \/ Ready /\ \E k \in AllKeys : DequeDict_delitem(k)
    \/ Ready /\ DequeDict_popleft
    \/ Ready /\ DequeDict_popleftitem
    \/ Ready /\ DequeDict_pop(NoKey, NoVal)
    \/ Ready /\ DequeDict_popitem
    \/ Ready /\ \E i \in Indices, mf \in BOOLEAN : DequeDict_at(i, mf)

SpecCheap == InitDeep /\ [][NextCheap]_vars

\* The new-key branch of DequeDict_setitem in a workload that holds at most
\* MaxLive entries and has no failing allocation.
QueueSet(key, value) ==
    /\ PyDict_GetItem(dict, key) = NULL
    /\ size < MaxLive
    /\ cache_size < MaxExtent
    /\ SetNew("setitem", key, value, "none")

\* A queue: entries are set at the tail and popped from the front, with
\* positional reads in between.
NextQueue ==
    \/ Ready /\ \E k \in HashableKeys, v \in Values : QueueSet(k, v)
    \/ Ready /\ DequeDict_popleft
    \/ Ready /\ \E i \in Indices : DequeDict_at(i, FALSE)

SpecQueue == Init /\ [][NextQueue]_vars

\* iter(d), kept by the caller across later calls.
IterOpen ==
    /\ ~iterobj.live
    /\ iterobj' = [live |-> TRUE, current |-> DequeDict_iter.current]
    /\ steps' = Step
    /\ UNCHANGED <<heapVars, dict, listVars, cacheVars, last, failed, ub,
                   peer, budget>>

\* next(it) on the iterator kept: the call records the entry it read.
IterStep ==
    /\ iterobj.live
    /\ LET n == DequeDictIter_next(iterobj)
           c == Call("next", NoKey, iterobj.current, n.res.err, n.res.rk,
                     n.res.rv)
       IN  /\ iterobj' = n.it
           /\ ub' = (n.res.err = "undefined")
           /\ IF ub' THEN last' = c ELSE last' = Unobserved \/ last' = c
           /\ steps' = Step
           /\ UNCHANGED <<heapVars, dict, listVars, cacheVars, failed, peer,
                          budget>>

\* Steps of one iterator between sets and removals on its container.
NextIter ==
    \/ Ready /\ \E k \in AllKeys, v \in Values, f \in FailModes : DequeDict_setitem(k, v, f)
    \/ Ready /\ \E k \in AllKeys : DequeDict_delitem(k)
    \/ Ready /\ DequeDict_popleft
    \/ Ready /\ IterOpen
    \/ Ready /\ IterStep

SpecIter == Init /\ [][NextIter]_vars

(* ------------------------------- claims -------------------------------- *)
Without(s, k) == SelectSeq(s, LAMBDA x : x # k)
Count(s, k) == Cardinality({i \in DOMAIN s : s[i] = k})

\* C1: in every reachable state and for every i in [0, size), at(i) returns
\* the value of the i-th entry of the head-to-tail traversal, the cache
\* being rebuilt by at itself when it is absent.
C1_AtIsTraversal ==
    ~ub => \A i \in 0..(size - 1) :
              LET r == At(i, FALSE)
              IN  /\ r.err = Ok
                  /\ i < Len(Entries)
                  /\ r.rv = mem[Entries[i + 1]].value

\* The key index and the list hold the same keys, one entry per key, and
\* the index maps each key to the entry of the list that holds it.
Bijection ==
    /\ ~Cyclic
    /\ DOMAIN dict = Range(KeyOrder)
    /\ \A k \in DOMAIN dict : Count(KeyOrder, k) = 1
    /\ \A i \in DOMAIN Entries : dict[KeyOrder[i]] = Entries[i]

\* C2: after every successful set, delete, pop, popitem, popleft,
\* popleftitem, appendleft, move_to_end or clear of a sequence of calls on a
\* container that started empty, the key index and the entries reachable
\* from head hold the same keys, and the index refers, for each key, to the
\* one entry holding it.
C2_IndexIsList ==
    (last.op \in Changing /\ last.err = Ok) => Bijection

\* C3: after constructing from a sequence of pairs, every key of the
\* sequence is held by exactly one entry, len() is the number of distinct
\* keys, and the keys are iterated in the order of the sequence.
C3_ConstructedFromPairs ==
    (last.op = "init" /\ last.err = Ok) =>
        LET items == last.arg
            keys == {items[i][1] : i \in DOMAIN items}
        IN  /\ \A k \in keys : Count(KeyOrder, k) = 1
            /\ DequeDict_len = Cardinality(keys)
            /\ Cardinality(keys) = Len(items) =>
                   KeyOrder = [i \in DOMAIN items |-> items[i][1]]

\* What the observed call adds to size if C4 is right: one for a successful
\* insert of a new key, minus one for a successful removal, minus one per
\* entry for clear, nothing for a failed call or a value replacement.
SizeDelta ==
    IF last'.err # Ok THEN 0
    ELSE IF last'.op \in {"setitem", "setdefault", "appendleft"}
    THEN (IF last'.key \in DOMAIN dict THEN 0 ELSE 1)
    ELSE IF last'.op \in {"delitem", "popitem", "popleft", "popleftitem"}
    THEN -1
    ELSE IF last'.op = "pop"
    THEN (IF last'.key \in DOMAIN dict \cup {NoKey} THEN -1 ELSE 0)
    ELSE IF last'.op = "clear" THEN -Len(Entries)
    ELSE 0

\* C4: every call changes size() by what it inserted or removed: plus one
\* for a successful insert of a new key, minus one for a successful removal,
\* minus the entries removed for clear; a failed call and a value
\* replacement leave size() as it was.
C4_SizeCountsInserts ==
    [][last'.op \in Changing \cup {"getitem", "get", "contains", "at"} \cup PeekOps
          => size' = size + SizeDelta]_vars

\* C5: in every reachable state head is NULL exactly when tail is NULL,
\* exactly when size is 0.
C5_EmptyEnds ==
    ~ub => /\ (head = NULL) <=> (tail = NULL)
           /\ (head = NULL) <=> (size = 0)

\* C6: set(key, value) on a key already present replaces the value of that
\* key's entry and nothing else: key order, size, key index and the position
\* cache (array, size, capacity, offset) are as before.
C6_SetExistingFrame ==
    [][\A k \in HashableKeys :
         (last'.op = "setitem" /\ last'.err = Ok /\ last'.key = k
              /\ k \in DOMAIN dict) =>
             /\ mem' = [mem EXCEPT ![dict[k]].value = last'.arg]
             /\ KeyOrder' = KeyOrder
             /\ size' = size
             /\ dict' = dict
             /\ Cache' = Cache
             /\ <<head, tail>>' = <<head, tail>>]_vars

\* A set of a key that was present (it is not the last key) has replaced
\* the value of an interior or first entry while a cache with a left
\* offset was present.
C6_Witness ==
    /\ last.op = "setitem" /\ last.err = Ok
    /\ last.key \in DOMAIN dict
    /\ tail # NULL /\ mem[tail].key # last.key
    /\ mem[dict[last.key]].value = last.arg
    /\ index_cache # NullCache /\ cache_offset > 0

\* C7: after a successful set(k, v), get(k) returns v; when k was absent
\* before the call, k is the last key of the traversal and the keys present
\* before keep their order.
C7_SetThenGet ==
    [][\A k \in AllKeys :
         (last'.op = "setitem" /\ last'.err = Ok /\ last'.key = k) =>
             /\ GetItemResult(k)' = Result(Ok, NoKey, last'.arg)
             /\ k \notin DOMAIN dict => KeyOrder' = Append(KeyOrder, k)]_vars

\* C8: after a successful appendleft(k, v) of an absent key, peekleftitem()
\* returns (k, v), size is one more, and the entries present before follow
\* the new head in their old order.
C8_AppendLeftThenPeek ==
    [][\A k \in AllKeys :
         (last'.op = "appendleft" /\ last'.err = Ok /\ last'.key = k) =>
             /\ PeekResult("peekleftitem")' = Result(Ok, k, last'.arg)
             /\ size' = size + 1
             /\ KeyOrder' = <<k>> \o KeyOrder
             /\ ValueOrder' = <<last'.arg>> \o ValueOrder]_vars

\* C9: appendleft(k, v) of a key already present raises the KeyError that
\* reports a duplicate key and changes nothing: entries, order, values,
\* size, key index and position cache are as before.
C9_AppendLeftDuplicate ==
    [][\A k \in HashableKeys :
         (last'.op = "appendleft" /\ last'.key = k /\ k \in DOMAIN dict) =>
             /\ last'.err = "KeyError"
             /\ UNCHANGED <<mem, dict, head, tail, size>>
             /\ UNCHANGED <<index_cache, cache_size, cache_capacity, cache_offset>>
             /\ KeyOrder' = KeyOrder /\ ValueOrder' = ValueOrder]_vars

\* An appendleft of a present key was refused while a cache was present.
C9_Witness ==
    /\ last.op = "appendleft" /\ last.err = "KeyError"
    /\ last.key \in DOMAIN dict
    /\ size >= 2
    /\ index_cache # NullCache /\ cache_size - cache_offset = size

\* C10: delete(k) and pop(k) of a present key remove exactly k's entry:
\* k is no longer contained, size is one less, every other key keeps its
\* value, the remaining keys keep their order, and pop(k) returns the value
\* removed.
C10_RemoveExactlyOne ==
    [][\A k \in HashableKeys :
         (last'.op \in {"delitem", "pop"} /\ last'.err = Ok /\ last'.key = k
              /\ k \in DOMAIN dict) =>
             /\ ContainsResult(k)' = Result(Ok, NoKey, 0)
             /\ size' = size - 1
             /\ \A j \in DOMAIN dict \ {k} : GetItemResult(j)' = GetItemResult(j)
             /\ KeyOrder' = Without(KeyOrder, k)
             /\ last'.op = "pop" => last'.rv = mem[dict[k]].value]_vars

\* Entries, free list, key index, list ends, size and cache are as before.
ContainerUnchanged == UNCHANGED <<heapVars, dict, listVars, cacheVars>>

\* C11: d[k], del d[k], pop(k) without default and move_to_end(k) on an
\* absent key k raise KeyError and leave order, values, size, key index and
\* position cache as they were.
C11_KeyNotFoundFrame ==
    [][\A k \in AllKeys :
         (/\ last'.key = k /\ k \notin DOMAIN dict
          /\ \/ last'.op \in {"getitem", "delitem", "move_to_end"}
             \/ last'.op = "pop" /\ last'.arg = NoVal) =>
             /\ last'.err = "KeyError"
             /\ ContainerUnchanged
             /\ KeyOrder' = KeyOrder /\ ValueOrder' = ValueOrder]_vars

\* A delete of an absent key was refused on a container of two or more
\* entries whose cache was present with a left offset.
C11_Witness ==
    /\ last.op = "delitem" /\ last.err = "KeyError"
    /\ last.key \notin DOMAIN dict
    /\ size >= 2
    /\ index_cache # NullCache /\ cache_offset > 0

\* C12: pop(k, default) on an absent key k returns the default, raises
\* nothing and leaves size, order, key index and position cache as they were.
C12_PopDefaultFrame ==
    [][\A k \in AllKeys :
         (last'.op = "pop" /\ last'.key = k /\ k \notin DOMAIN dict
              /\ last'.arg # NoVal) =>
             /\ last'.err = Ok
             /\ last'.rv = last'.arg
             /\ ContainerUnchanged
             /\ KeyOrder' = KeyOrder /\ size' = size]_vars

\* pop(k, default) of an absent key returned the default on a container
\* that held entries and a cache.
C12_Witness ==
    /\ last.op = "pop" /\ last.err = Ok
    /\ last.key # NoKey /\ last.key \notin DOMAIN dict
    /\ last.arg # NoVal /\ last.rv = last.arg
    /\ size >= 1 /\ index_cache # NullCache

ButLast(s) == SubSeq(s, 1, Len(s) - 1)

\* C13: popleft() and popleftitem() on a container with a head remove
\* exactly the head entry: they return its value (its key and value), its
\* key is no longer contained, the former second entry is the head, and the
\* remaining entries keep their order.
C13_PopLeftRemovesHead ==
    [][(last'.op \in {"popleft", "popleftitem"} /\ head # NULL) =>
         /\ last'.err = Ok
         /\ last'.rv = mem[head].value
         /\ last'.op = "popleftitem" => last'.rk = mem[head].key
         /\ \A k \in AllKeys :
               mem[head].key = k => ContainsResult(k)' = Result(Ok, NoKey, 0)
         /\ head' = mem[head].next
         /\ Entries' = Tail(Entries)
         /\ KeyOrder' = Tail(KeyOrder)
         /\ ValueOrder' = Tail(ValueOrder)]_vars

\* C14: pop() without a key and popitem() on a container with a tail remove
\* exactly the tail entry: they return its value (its key and value), its
\* key is no longer contained, the former second-to-last entry is the tail,
\* and the remaining entries keep their order.
C14_PopRemovesTail ==
    [][(/\ tail # NULL
        /\ \/ last'.op = "popitem"
           \/ last'.op = "pop" /\ last'.key = NoKey) =>
         /\ last'.err = Ok
         /\ last'.rv = mem[tail].value
         /\ last'.op = "popitem" => last'.rk = mem[tail].key
         /\ \A k \in AllKeys :
               mem[tail].key = k => ContainsResult(k)' = Result(Ok, NoKey, 0)
         /\ tail' = mem[tail].prev
         /\ Entries' = ButLast(Entries)
         /\ KeyOrder' = ButLast(KeyOrder)
         /\ ValueOrder' = ButLast(ValueOrder)]_vars

\* A container without entries: no head, no tail, size 0.
Empty == head = NULL /\ tail = NULL /\ size = 0

\* C15: on an empty container peekleft, peekleftitem, peekleftkey, peek,
\* peekitem, popleft, popleftitem, popitem and pop() each raise (IndexError
\* or KeyError) and leave head, tail, size, key index and cache as they were.
C15_EmptyFails ==
    [][(/\ Empty
        /\ \/ last'.op \in PeekOps \cup {"popleft", "popleftitem", "popitem"}
           \/ last'.op = "pop" /\ last'.key = NoKey) =>
         /\ last'.err \in {"IndexError", "KeyError"}
         /\ ContainerUnchanged
         /\ Empty' /\ dict' = EmptyDict]_vars

\* popitem was refused on a container that had held entries and was empty
\* again.
C15_Witness ==
    /\ last.op = "popitem" /\ last.err = "KeyError"
    /\ Empty /\ dict = EmptyDict
    /\ freelist_size >= 2

C17_MoveToEnd ==
    [][\A k \in HashableKeys :
         (last'.op = "move_to_end" /\ last'.key = k /\ k \in DOMAIN dict
              /\ last'.err = Ok) =>
             /\ last'.arg = 1 =>
                   /\ mem'[tail'].key = k
                   /\ KeyOrder' = Append(Without(KeyOrder, k), k)
                   /\ dict[k] = tail => KeyOrder' = KeyOrder
             /\ last'.arg = 0 =>
                   /\ mem'[head'].key = k
                   /\ KeyOrder' = <<k>> \o Without(KeyOrder, k)
                   /\ dict[k] = head => KeyOrder' = KeyOrder
             /\ size' = size
             /\ DOMAIN dict' = DOMAIN dict
             /\ \A j \in DOMAIN dict : GetItemResult(j)' = GetItemResult(j)]_vars

\* C18: on a container that is not empty peekleft, peekleftitem and
\* peekleftkey return the value, the pair and the key of the head entry,
\* peek and peekitem the value and the pair of the tail entry, and none of
\* them changes the container.
C18_PeekFrame ==
    [][(last'.op \in PeekOps /\ ~Empty) =>
         /\ last'.err = Ok
         /\ head # NULL /\ tail # NULL
         /\ last'.op = "peekleft" => last'.rv = mem[head].value
         /\ last'.op = "peekleftitem" =>
               last'.rk = mem[head].key /\ last'.rv = mem[head].value
         /\ last'.op = "peekleftkey" => last'.rk = mem[head].key
         /\ last'.op = "peek" => last'.rv = mem[tail].value
         /\ last'.op = "peekitem" =>
               last'.rk = mem[tail].key /\ last'.rv = mem[tail].value
         /\ ContainerUnchanged]_vars

\* C19: at(index) raises IndexError exactly when index is outside
\* [-size, size), whatever the state of the cache (absent, rebuilt, with a
\* left offset or a trimmed tail), and for -size <= index < 0 at(index) is
\* at(index + size).
C19_AtRange ==
    ~ub => \A i \in Indices :
              LET r == At(i, FALSE)
              IN  /\ (r.err = "IndexError") <=> (i < -size \/ i >= size)
                  /\ (-size <= i /\ i < 0) =>
                        /\ r.err = At(i + size, FALSE).err
                        /\ r.rv = At(i + size, FALSE).rv

\* The free list is a chain of freelist_size distinct entries: what
\* entry_alloc hands out next is an entry nobody holds.
PoolWellFormed ==
    LET fl == WalkNext(mem, freelist, WalkLimit)
    IN  /\ Len(fl) = freelist_size
        /\ \A i, j \in DOMAIN fl : fl[i] = fl[j] => i = j

\* C20: after clear() size is 0, head and tail are NULL, the key index is
\* empty and the cache absent, and the container behaves like a new one in
\* every later call: the pool it allocates from is a chain of distinct free
\* entries, as it is for a new container.
C20_ClearIsFresh ==
    (last.op = "clear" /\ last.err = Ok) =>
        /\ Empty
        /\ dict = EmptyDict
        /\ Cache = DequeDict_invalidate_cache(Cache)
        /\ PoolWellFormed

\* The calls that take from an end and fail on an empty container.
EndOps == PeekOps \cup {"popleft", "popleftitem", "popitem"}

\* C24 as stated: the kinds of error are pairwise distinct.  The error of an
\* appendleft of a present key differs from the error a lookup of an absent
\* key raises in the same state, and the error of a peek or pop on an empty
\* container differs from the error at() raises there.
C24_DistinctKinds ==
    [][/\ (last'.op = "appendleft" /\ last'.key \in DOMAIN dict) =>
            \A k \in HashableKeys \ DOMAIN dict :
                last'.err # GetItemResult(k).err
       /\ ((last'.op \in EndOps \/ (last'.op = "pop" /\ last'.key = NoKey))
              /\ Empty) =>
            \A i \in Indices : last'.err # At(i, FALSE).err]_vars

\* C24, amended: the kinds are KeyError and IndexError, each shared by two
\* conditions.  appendleft of a present key raises KeyError, as does the
\* lookup or removal of an absent key; peekleft, peekleftitem, peekleftkey,
\* peek, peekitem, popleft and pop() on an empty container raise IndexError,
\* as does at() outside [-size, size) when it raises for the index;
\* popleftitem and popitem on an empty container raise KeyError.
C24_ErrorKinds ==
    [][/\ (last'.op = "appendleft" /\ last'.key \in DOMAIN dict) =>
            last'.err = "KeyError"
       /\ (last'.op \in {"getitem", "delitem", "move_to_end"}
              /\ last'.key \notin DOMAIN dict) => last'.err = "KeyError"
       /\ (last'.op = "pop" /\ last'.key # NoKey /\ last'.arg = NoVal
              /\ last'.key \notin DOMAIN dict) => last'.err = "KeyError"
       /\ ((last'.op \in PeekOps \cup {"popleft"}
               \/ (last'.op = "pop" /\ last'.key = NoKey)) /\ Empty) =>
            last'.err = "IndexError"
       /\ (last'.op \in {"popleftitem", "popitem"} /\ Empty) =>
            last'.err = "KeyError"
       /\ (last'.op = "at" /\ (last'.arg < -size \/ last'.arg >= size)
              /\ last'.err \notin {"MemoryError", "undefined"}) =>
            last'.err = "IndexError"]_vars

\* An appendleft of a present key has raised while another key is absent
\* and the container holds two entries.
C24_Witness ==
    /\ last.op = "appendleft"
    /\ last.err = "KeyError"
    /\ last.key \in DOMAIN dict
    /\ size = 2
    /\ HashableKeys \ DOMAIN dict # {}
    /\ ~failed

\* C25: when entry_alloc returns NULL in a set of a new key or an appendleft
\* (the free list is empty and PyMem_Malloc gives nothing), the call raises
\* MemoryError and order, size, key index, position cache and pool are as
\* before; when no address is left the allocation cannot but fail.
C25_AllocFailureFrame ==
    [][\A k \in AllKeys :
         (last'.op \in {"setitem", "appendleft", "setdefault"} /\ last'.key = k
             /\ PyDict_Contains(dict, k) = 0 /\ freelist = NULL) =>
            /\ (last'.err = "MemoryError" /\ allocated' = allocated) =>
                  /\ ContainerUnchanged
                  /\ KeyOrder' = KeyOrder /\ ValueOrder' = ValueOrder
            /\ allocated = Addr =>
                  last'.err = "MemoryError" /\ allocated' = allocated]_vars

\* An appendleft of a new key has failed to get an entry while the cache
\* was present with a left offset.
C25_Witness ==
    /\ last.op = "appendleft"
    /\ last.err = "MemoryError"
    /\ PyDict_Contains(dict, last.key) = 0
    /\ freelist = NULL
    /\ allocated # Addr
    /\ index_cache # NullCache
    /\ size >= 1

CachePresent == index_cache # NullCache

\* C28: whenever the position cache is present, cache_size - cache_offset
\* is the number of live entries, the slots cache_offset .. cache_size - 1
\* hold the entries of the list from head to tail, the cache_idx of every
\* entry of the list is the slot that holds it, and
\* 0 <= cache_offset <= cache_size <= cache_capacity.
C28_CacheInvariant ==
    CachePresent =>
        /\ 0 <= cache_offset
        /\ cache_offset <= cache_size
        /\ cache_size <= cache_capacity
        /\ cache_capacity = Len(index_cache)
        /\ cache_size - cache_offset = size
        /\ Len(Entries) = size
        /\ \A i \in 1..size :
              /\ index_cache[cache_offset + i] = Entries[i]
              /\ mem[Entries[i]].cache_idx = cache_offset + i - 1

C30_InvalidateThenRebuild ==
    [][\A k \in AllKeys \cup {NoKey} :
         last'.key = k =>
           /\ (last'.op \in {"delitem", "appendleft", "clear"}
                  /\ last'.err = Ok) => index_cache' = NullCache
           /\ (last'.op = "pop" /\ k \in DOMAIN dict /\ last'.err = Ok) =>
                 index_cache' = NullCache
           /\ (last'.op = "move_to_end" /\ k \in DOMAIN dict
                  /\ last'.err = Ok
                  /\ dict[k] # (IF last'.arg = 1 THEN tail ELSE head)) =>
                 index_cache' = NullCache
           /\ (last'.op = "at" /\ index_cache = NullCache /\ size > 0
                  /\ last'.err # "MemoryError") =>
                 /\ index_cache' # NullCache
                 /\ cache_offset' = 0
                 /\ cache_size' = size
                 /\ Len(Entries) = size
                 /\ \A i \in 1..size : index_cache'[i] = Entries[i]]_vars

\* The container holds exactly the pairs of the mapping other.
SameContent(other) ==
    /\ size = Cardinality(DOMAIN other)
    /\ \A k \in DOMAIN other : GetItemResult(k) = Result(Ok, NoKey, other[k])

\* C21: the container compares equal to a mapping exactly when both have the
\* same size and every key of one is in the other with an equal value,
\* whatever the order of the list; != returns the opposite of ==.
C21_Equality ==
    \A other \in Mappings :
        LET eq == RichCompareResult(other, "==")
            ne == RichCompareResult(other, "!=")
        IN  /\ eq.err = Ok /\ ne.err = Ok
            /\ (eq.rv = 1) <=> SameContent(other)
            /\ ne.rv = 1 - eq.rv

Reverse(s) == [i \in DOMAIN s |-> s[Len(s) + 1 - i]]

\* What an iterator of the given kind yields for key k and value v.
Yielded(kind, k, v) ==
    Result(Ok, IF kind = 1 THEN NoKey ELSE k, IF kind = 0 THEN NoVal ELSE v)

\* C23: with no call in between, a forward iterator (iter(d) or the
\* iterator of a keys, values or items view) yields the keys, values or
\* pairs of the list from head to tail, a reversed iterator the same
\* sequence backwards; either stops after size results and stays stopped.
C23_Iteration ==
    \A it \in Iterators :
        LET ys == Yields(it, size + 2)
            ks == IF it.reverse = 1 THEN Reverse(KeyOrder) ELSE KeyOrder
            vs == IF it.reverse = 1 THEN Reverse(ValueOrder) ELSE ValueOrder
        IN  /\ size >= 0
            /\ Len(KeyOrder) = size
            /\ \A i \in 1..size : ys[i] = Yielded(it.kind, ks[i], vs[i])
            /\ ys[size + 1] = StopIteration
            /\ ys[size + 2] = StopIteration

\* C27: the variant without a cache does what the variant with a cache
\* does.  Every call of the cache-bearing variant other than at(), from any
\* state it reaches, returns or raises what the same call of the other
\* variant returns or raises from the same list, index and pool, and leaves
\* the same list, index and pool; the two differ in where an insert runs
\* out of memory only in the growth of the cache, which raises nothing.
C27_NoCacheRefinement ==
    [][last'.op \in NoCacheOps =>
         \E fail \in {"none", "alloc", "index"} :
             LET r == NoCacheCall(last'.op, last'.key, last'.arg, fail)
             IN  /\ r.st = Projection'
                 /\ r.err = last'.err
                 /\ r.rk = last'.rk
                 /\ r.rv = last'.rv]_vars

\* A pop() has returned from a container whose cache was present with a
\* left offset, leaving an entry.
C27_Witness ==
    /\ last.op = "pop"
    /\ last.key = NoKey
    /\ last.err = Ok
    /\ CachePresent
    /\ cache_offset > 0
    /\ size >= 1
    /\ ~failed

\* The keys and the values of the other container, head to tail.
PeerEntries == WalkNext(mem, peer.head, WalkLimit)
PeerKeyOrder == KeysOf(mem, PeerEntries)
PeerValueOrder == ValuesOf(mem, PeerEntries)

\* C22: copy() returns a container with the entries of the original in the
\* original's order and leaves the original as it was; and no call on one
\* of the two changes the order, the values, the size or the cache of the
\* other.
C22_CopyIndependent ==
    [][/\ (~peer.live /\ peer'.live) =>
              /\ PeerKeyOrder' = KeyOrder /\ PeerValueOrder' = ValueOrder
              /\ peer'.size = size
              /\ KeyOrder' = KeyOrder /\ ValueOrder' = ValueOrder
              /\ UNCHANGED <<size, cacheVars>>
       /\ (peer.live /\ peer' = peer) =>
              /\ PeerKeyOrder' = PeerKeyOrder
              /\ PeerValueOrder' = PeerValueOrder]_vars

\* A del d[k] or pop(k) of a present key has returned.
RemovedByKey ==
    /\ last'.op \in {"delitem", "pop"}
    /\ last'.key \in DOMAIN dict
    /\ last'.err = Ok

C32_GrowthFailure ==
    [][\A k \in HashableKeys :
         (/\ last'.op = "setitem" /\ last'.key = k /\ k \notin DOMAIN dict
          /\ last'.err = Ok
          /\ CachePresent /\ index_cache' = NullCache) =>
             /\ cache_size' = 0 /\ cache_capacity' = 0 /\ cache_offset' = 0
             /\ size' = size + 1
             /\ tail' # NULL
             /\ mem'[tail'].key = k /\ mem'[tail'].value = last'.arg
             /\ PyDict_GetItem(dict, k)' = tail'
             /\ KeyOrder' = Append(KeyOrder, k)
             /\ \A i \in 0..(size' - 1) :
                   /\ At(i, FALSE)'.err = Ok
                   /\ i < Len(ValueOrder')
                   /\ At(i, FALSE)'.rv = ValueOrder'[i + 1]]_vars

\* An insert of a key that is not in the index has failed.
InsertRefused ==
    /\ last'.op \in {"setitem", "appendleft", "setdefault"}
    /\ last'.key \notin DOMAIN dict
    /\ last'.err \in {"TypeError", "MemoryError"}

\* C34: a set of a new key or an appendleft that fails, also after the new
\* entry was linked, leaves the container as before the call: the same
\* entries from head and from tail, the same size, the same position cache.
C34_FailedInsertRollback ==
    [][InsertRefused =>
           /\ UNCHANGED <<head, tail, size, dict, cacheVars>>
           /\ KeyOrder' = KeyOrder /\ ValueOrder' = ValueOrder
           /\ WalkPrev(mem, tail, WalkLimit)' = WalkPrev(mem, tail, WalkLimit)]_vars

\* The entries on the chain from the free list's head.
FreeEntries == Range(WalkNext(mem, freelist, WalkLimit))

\* The entries a container reaches: from head by next, from tail by prev,
\* through the key index and through the slots of the position cache.
Linked(c) ==
    Range(WalkNext(mem, c.head, WalkLimit)) \cup Range(WalkPrev(mem, c.tail, WalkLimit))
Reachable(c) ==
    Linked(c) \cup {c.dict[k] : k \in DOMAIN c.dict} \cup Window(c)
This == Container(TRUE, dict, head, tail, size, Cache)

\* C35: with two containers on the one free list, no entry is on the free
\* list and at the same time reachable from a container's head or tail, key
\* index or position cache, and no entry is linked into both containers.
C35_ExclusiveOwnership ==
    /\ FreeEntries \cap (Reachable(This) \cup Reachable(peer)) = {}
    /\ Linked(This) \cap Linked(peer) = {}

\* C33: an iterator is not guarded against mutations made between its
\* steps.  A removal of the entry it stands on leaves the iterator as it
\* was, with current on an entry that is now on the free list; and next()
\* reads whatever entry current is on: the call is undefined when the
\* entry's references were released, and otherwise yields the key the
\* entry holds now and moves to that entry's next.
C33_UnguardedIterator ==
    [][(iterobj.live /\ iterobj.current # NULL) =>
         /\ (/\ last'.op \in {"delitem", "popleft"} /\ last'.err = Ok
             /\ iterobj.current \in Range(Entries)
             /\ iterobj.current \notin Range(Entries')) =>
                /\ iterobj' = iterobj
                /\ iterobj.current \in FreeEntries'
         /\ last'.op = "next" =>
                /\ last'.arg = iterobj.current
                /\ IF Referenced(mem, iterobj.current)
                   THEN /\ last'.err = Ok
                        /\ last'.rk = mem[iterobj.current].key
                        /\ iterobj'.current = mem[iterobj.current].next
                   ELSE last'.err = "undefined"]_vars

\* With no insert having failed, a next() has read an entry that is on the
\* free list and not in the list.
C33_Witness ==
    /\ last.op = "next"
    /\ last.err = "undefined"
    /\ last.arg \in FreeEntries
    /\ last.arg \notin Range(Entries)
    /\ iterobj.live
    /\ ~failed

\* The slots the growth policy gives a cache of at most MaxLive entries: a
\* rebuild allocates one per entry, growth doubles, to MinCacheCapacity at
\* least.
QueueExtent ==
    IF 2 * MaxLive < MinCacheCapacity THEN MinCacheCapacity ELSE 2 * MaxLive

\* C37: in a workload of sets of new keys and poplefts that never holds
\* more than MaxLive entries, a present cache stays within the extent the
\* growth policy gives for MaxLive entries, the slots left of cache_offset
\* included.
C37_BoundedExtent ==
    CachePresent => cache_size <= QueueExtent /\ cache_capacity <= QueueExtent

\* C36: an absent position cache has cache_size, cache_capacity and
\* cache_offset zero, in every reachable state.
C36_AbsentCacheIsZero ==
    ~CachePresent => cache_size = 0 /\ cache_capacity = 0 /\ cache_offset = 0

\* C38: at(index), whatever it returns or raises and whether or not it
\* rebuilds the cache, has a defined outcome and changes nothing but the
\* position cache and the cache_idx of entries: pool, key index, list ends,
\* size, and every entry's key, value and links are as before, so that no
\* other call can tell whether it was made.
C38_AtFrame ==
    [][last'.op = "at" =>
           /\ last'.err # "undefined"
           /\ UNCHANGED <<allocated, freelist, freelist_size, dict, listVars>>
           /\ NoCacheMem(mem)' = NoCacheMem(mem)
           /\ KeyOrder' = KeyOrder /\ ValueOrder' = ValueOrder]_vars

\* C39: the list is a queue of the keys in the order of their insertion.  A
\* set of a new key puts its pair last and a refused one changes nothing;
\* popleft on a non-empty container returns the first value and removes the
\* first pair, pop() returns the last value and removes the last pair; and
\* del d[k] and pop(k) take out k's pair only.  Hence successive poplefts
\* return the values first in, first out, and successive pop()s last in,
\* first out.
C39_FifoLifo ==
    [][/\ \A k \in AllKeys :
             (last'.op = "setitem" /\ last'.key = k /\ k \notin DOMAIN dict) =>
                 IF last'.err = Ok
                 THEN /\ KeyOrder' = Append(KeyOrder, k)
                      /\ ValueOrder' = Append(ValueOrder, last'.arg)
                 ELSE KeyOrder' = KeyOrder /\ ValueOrder' = ValueOrder
       /\ (last'.op = "popleft" /\ size > 0) =>
             /\ last'.err = Ok
             /\ KeyOrder # <<>>
             /\ last'.rv = Head(ValueOrder)
             /\ KeyOrder' = Tail(KeyOrder) /\ ValueOrder' = Tail(ValueOrder)
       /\ (last'.op = "pop" /\ last'.key = NoKey /\ size > 0) =>
             /\ last'.err = Ok
             /\ KeyOrder # <<>>
             /\ last'.rv = ValueOrder[Len(ValueOrder)]
             /\ KeyOrder' = SubSeq(KeyOrder, 1, Len(KeyOrder) - 1)
             /\ ValueOrder' = SubSeq(ValueOrder, 1, Len(ValueOrder) - 1)
       /\ RemovedByKey =>
             /\ KeyOrder' = Without(KeyOrder, last'.key)
             /\ Len(ValueOrder') = Len(ValueOrder) - 1]_vars

\* C40: the entries form an acyclic doubly-linked list.  head and tail are
\* both null or both not; head has no predecessor and tail no successor;
\* every successor's prev is the entry it follows; tail is size - 1 steps
\* of next from head, and head size - 1 steps of prev from tail.
C40_WellFormedList ==
    /\ (head = NULL) <=> (tail = NULL)
    /\ (head = NULL) <=> (size = 0)
    /\ ~Cyclic
    /\ Len(Entries) = size
    /\ head # NULL =>
          /\ mem[head].prev = NULL
          /\ mem[tail].next = NULL
          /\ Entries[Len(Entries)] = tail
          /\ \A i \in 1..(Len(Entries) - 1) :
                mem[Entries[i + 1]].prev = Entries[i]
          /\ WalkPrev(mem, tail, WalkLimit) = Reverse(Entries)

=============================================================================
